---- MODULE Spec2Model ----
(***************************************************************************)
(* Model of the photo-to-GIF conversion service (src/main.py): the POST    *)
(* /convert handler with its validation helper, the background-removal and *)
(* GIF-writing steps, the shared scratch directory and the startup sweep.  *)
(*                                                                         *)
(* File names are sequences of tokens: "." and "/" stand for the dot and   *)
(* the path separator, every other token for a run of ordinary characters. *)
(* Upload payloads are numbered: 0 is a byte string that decodes as no     *)
(* image, 1..NumImages are distinct decodable pictures.                    *)
(***************************************************************************)
EXTENDS Integers, Sequences, FiniteSets, TLC

\* ------------------------------------------------------------------ bounds
NumImages == 2

Images == 1..NumImages
Payloads == 0..NumImages

\* --------------------------------------------------------- program constants
MAX_FILE_SIZE == 10 * 1024 * 1024

SUPPORTED_FORMATS ==
    { <<".", "jpg">>, <<".", "jpeg">>, <<".", "png">>,
      <<".", "bmp">>, <<".", "tiff">>, <<".", "webp">> }

\* rembg_session as left by the module-level try/except
SessionValues == {"loaded", "None"}

\* ------------------------------------------------------- pathlib, str.lower
LowerTable ==
    [t \in {"JPG", "JPEG", "PNG", "BMP", "TIFF", "WEBP", "GIF", "TXT", "PHOTO"} |->
        CASE t = "JPG" -> "jpg" [] t = "JPEG" -> "jpeg" [] t = "PNG" -> "png"
          [] t = "BMP" -> "bmp" [] t = "TIFF" -> "tiff" [] t = "WEBP" -> "webp"
          [] t = "GIF" -> "gif" [] t = "TXT" -> "txt" [] t = "PHOTO" -> "photo"]

\* str.lower(), token by token
lower(s) ==
    [i \in 1..Len(s) |-> IF s[i] \in DOMAIN LowerTable THEN LowerTable[s[i]] ELSE s[i]]

\* the pieces of p between separators (possibly empty)
RECURSIVE SplitSep(_)
SplitSep(p) ==
    IF \A i \in 1..Len(p) : p[i] # "/"
    THEN <<p>>
    ELSE LET i == CHOOSE k \in 1..Len(p) :
                    p[k] = "/" /\ \A j \in 1..(k - 1) : p[j] # "/"
         IN  <<SubSeq(p, 1, i - 1)>> \o SplitSep(SubSeq(p, i + 1, Len(p)))

IsComponent(c) == c # <<>> /\ c # <<".">>

\* Path(p).name: the final component, empty and "." components dropped
PathName(p) ==
    LET parts == SelectSeq(SplitSep(p), IsComponent)
    IN  IF parts = <<>> THEN <<>> ELSE parts[Len(parts)]

\* name.rfind('.'), 1-based, 0 when there is no dot
RFindDot(name) ==
    IF \E i \in 1..Len(name) : name[i] = "."
    THEN CHOOSE i \in 1..Len(name) :
            name[i] = "." /\ \A j \in (i + 1)..Len(name) : name[j] # "."
    ELSE 0

\* Path(p).suffix: from the last dot, unless the dot leads or ends the name
PathSuffix(p) ==
    LET name == PathName(p)
        i == RFindDot(name)
    IN  IF 1 < i /\ i < Len(name) THEN SubSeq(name, i, Len(name)) ELSE <<>>

\* Path(p).stem
PathStem(p) ==
    LET name == PathName(p)
        i == RFindDot(name)
    IN  IF 1 < i /\ i < Len(name) THEN SubSeq(name, 1, i - 1) ELSE name

\* f"{base_name}_no_bg.gif"
OutputFilename(filename) == PathStem(filename) \o <<"_no_bg", ".", "gif">>

\* a sweep of every entry
GlobAll(name) == TRUE

\* TEMP_DIR.glob("*.gif"): the entry's name ends in ".gif"
GlobGif(name) ==
    Len(name) >= 2 /\ name[Len(name) - 1] = "." /\ name[Len(name)] = "gif"

\* ------------------------------------------------------------- responses
NoDetail == [text |-> "", exc |-> "", num |-> 0]
NoContent == [kind |-> "none", of |-> 0]

\* raise HTTPException(status_code, detail): the JSON error body
HTTPError(status, text, exc, num) ==
    [status |-> status,
     detail |-> [text |-> text, exc |-> exc, num |-> num],
     media_type |-> "application/json",
     filename |-> <<>>,
     body |-> NoContent]

NoResponse ==
    [status |-> 0, detail |-> NoDetail, media_type |-> "", filename |-> <<>>,
     body |-> NoContent]

\* ------------------------------------------------------------- the upload
\* UploadFile.size: None (known = FALSE) or the size the request declares
NoneSize == [known |-> FALSE, value |-> 0]
SizeOf(n) == [known |-> TRUE, value |-> n]

\* Image.open on the uploaded bytes succeeds
Decodable(content) == content.len > 0 /\ content.data \in Images

\* exception texts of the external calls (str(e))
ExcText ==
    [read |-> "spooled file read failed",
     remove |-> "onnxruntime inference failed",
     decode |-> "cannot identify image file",
     encode |-> "encoder error while writing GIF",
     isdir |-> "Is a directory"]

LogLine(level, text, exc) == [level |-> level, text |-> text, exc |-> exc]

\* ---------------------------------------------------- validate_image_file
\* the declared size checked before the filename and the extension
validate_image_file_sizefirst(file) ==
    IF file.size.known /\ file.size.value # 0 /\ file.size.value > MAX_FILE_SIZE
    THEN [raised |-> TRUE,
          resp |-> HTTPError(413, "File too large. Maximum size: MB", "",
                             MAX_FILE_SIZE \div (1024 * 1024)),
          steps |-> <<"declared_size">>]
    ELSE IF file.filename = <<>>
    THEN [raised |-> TRUE,
          resp |-> HTTPError(400, "No filename provided", "", 0),
          steps |-> <<"declared_size", "filename">>]
    ELSE IF lower(PathSuffix(file.filename)) \notin SUPPORTED_FORMATS
    THEN [raised |-> TRUE,
          resp |-> HTTPError(400, "Unsupported file format. Supported formats: ", "", 0),
          steps |-> <<"declared_size", "filename", "extension">>]
    ELSE [raised |-> FALSE, resp |-> NoResponse,
          steps |-> <<"declared_size", "filename", "extension">>]

\* no check of the extension
validate_image_file_anyext(file) ==
    IF file.filename = <<>>
    THEN [raised |-> TRUE,
          resp |-> HTTPError(400, "No filename provided", "", 0),
          steps |-> <<"filename">>]
    ELSE IF file.size.known /\ file.size.value # 0 /\ file.size.value > MAX_FILE_SIZE
    THEN [raised |-> TRUE,
          resp |-> HTTPError(413, "File too large. Maximum size: MB", "",
                             MAX_FILE_SIZE \div (1024 * 1024)),
          steps |-> <<"filename", "declared_size">>]
    ELSE [raised |-> FALSE, resp |-> NoResponse,
          steps |-> <<"filename", "declared_size">>]

\* filename present, extension supported, declared size within the limit
validate_image_file(file) ==
    IF file.filename = <<>>
    THEN [raised |-> TRUE,
          resp |-> HTTPError(400, "No filename provided", "", 0),
          steps |-> <<"filename">>]
    ELSE IF lower(PathSuffix(file.filename)) \notin SUPPORTED_FORMATS
    THEN [raised |-> TRUE,
          resp |-> HTTPError(400, "Unsupported file format. Supported formats: ", "", 0),
          steps |-> <<"filename", "extension">>]
    ELSE IF file.size.known /\ file.size.value # 0 /\ file.size.value > MAX_FILE_SIZE
    THEN [raised |-> TRUE,
          resp |-> HTTPError(413, "File too large. Maximum size: MB", "",
                             MAX_FILE_SIZE \div (1024 * 1024)),
          steps |-> <<"filename", "extension", "declared_size">>]
    ELSE [raised |-> FALSE, resp |-> NoResponse,
          steps |-> <<"filename", "extension", "declared_size">>]

\* ------------------------------------------------------ remove_background
\* session: rembg_session; outcome: what rembg's remove() does when called
\* a removal that goes on without a session
remove_background_coldload(image_data, session, outcome) ==
    IF outcome = "raise"
    THEN [raised |-> TRUE,
          err |-> [text |-> "Failed to remove background: ", exc |-> ExcText.remove],
          out |-> NoContent,
          steps |-> <<"remove_background", "rembg.remove">>,
          fault |-> "remove",
          logged |-> {LogLine("error", "Background removal error: ", ExcText.remove)}]
    ELSE [raised |-> FALSE,
          err |-> [text |-> "", exc |-> ""],
          out |-> [kind |-> "cutout", of |-> image_data.data, mode |-> "RGBA"],
          steps |-> <<"remove_background", "rembg.remove">>,
          fault |-> "none",
          logged |-> {LogLine("info", "Background removed successfully", "")}]

\* no session: ConversionError, itself caught and wrapped by the except clause
remove_background(image_data, session, outcome) ==
    IF session = "None"
    THEN [raised |-> TRUE,
          err |-> [text |-> "Failed to remove background: ",
                   exc |-> "Background removal service not available"],
          out |-> NoContent,
          steps |-> <<"remove_background">>,
          fault |-> "unavailable",
          logged |-> {LogLine("error", "Background removal error: ",
                              "Background removal service not available")}]
    ELSE IF outcome = "raise"
    THEN [raised |-> TRUE,
          err |-> [text |-> "Failed to remove background: ", exc |-> ExcText.remove],
          out |-> NoContent,
          steps |-> <<"remove_background", "rembg.remove">>,
          fault |-> "remove",
          logged |-> {LogLine("error", "Background removal error: ", ExcText.remove)}]
    ELSE [raised |-> FALSE,
          err |-> [text |-> "", exc |-> ""],
          out |-> [kind |-> "cutout", of |-> image_data.data, mode |-> "RGBA"],
          steps |-> <<"remove_background", "rembg.remove">>,
          fault |-> "none",
          logged |-> {LogLine("info", "Background removed successfully", "")}]

\* ------------------------------------------------------ scratch directory
\* fs: the entries of TEMP_DIR, name |-> [kind, content]
IsFile(fs, name) == name \in DOMAIN fs /\ fs[name].kind = "file"
IsDir(fs, name) == name \in DOMAIN fs /\ fs[name].kind = "dir"

WriteFile(fs, name, content) ==
    [n \in DOMAIN fs \cup {name} |->
        IF n = name THEN [kind |-> "file", content |-> content] ELSE fs[n]]

Unlink(fs, names) == [n \in DOMAIN fs \ names |-> fs[n]]

\* if img.mode != 'RGBA': img = img.convert('RGBA')
EnsureRGBA(img) == IF img.mode # "RGBA" THEN [img EXCEPT !.mode = "RGBA"] ELSE img

\* the GIF file written for a picture
GifOf(img) == [kind |-> "gif", of |-> img.of]
Truncated == [kind |-> "partial", of |-> 0]

\* img.save(output_path, format='GIF', ...): outcome is what the encoder does.
\* The file is opened for writing (created or truncated) before the encoder
\* runs; a failure before the open leaves the directory alone, a failure
\* after it leaves a truncated file, which the library removes or keeps when
\* this call created it.
SaveOutcomes == {"ok", "raise_before_open", "raise_kept", "raise_removed"}

img_save(fs, path, img, outcome) ==
    IF IsDir(fs, path)
    THEN [raised |-> TRUE, exc |-> ExcText.isdir, fs |-> fs]
    ELSE IF outcome = "ok"
    THEN [raised |-> FALSE, exc |-> "", fs |-> WriteFile(fs, path, GifOf(img))]
    ELSE IF outcome = "raise_before_open"
    THEN [raised |-> TRUE, exc |-> ExcText.encode, fs |-> fs]
    ELSE IF path \in DOMAIN fs \/ outcome = "raise_kept"
    THEN [raised |-> TRUE, exc |-> ExcText.encode, fs |-> WriteFile(fs, path, Truncated)]
    ELSE [raised |-> TRUE, exc |-> ExcText.encode, fs |-> fs]

\* ---------------------------------------------------------- convert_to_gif
\* env: the outcomes of the external calls of this request
\* a conversion that lets decode and encode failures through as they are
convert_to_gif_nowrap(image_data, filename, session, env, fs) ==
    LET rb == remove_background(image_data, session, env.remove)
        output_path == OutputFilename(filename)
        sv == img_save(fs, output_path, EnsureRGBA(rb.out), env.save)
    IN  IF rb.raised
        THEN [raised |-> "ConversionError", err |-> rb.err, path |-> <<>>, fs |-> fs,
              steps |-> rb.steps, fault |-> rb.fault, logged |-> rb.logged]
        ELSE IF env.decode = "raise"
        THEN [raised |-> "Exception",
              err |-> [text |-> "", exc |-> ExcText.decode],
              path |-> <<>>, fs |-> fs,
              steps |-> rb.steps \o <<"decode">>, fault |-> "decode",
              logged |-> rb.logged]
        ELSE IF sv.raised
        THEN [raised |-> "Exception",
              err |-> [text |-> "", exc |-> sv.exc],
              path |-> <<>>, fs |-> sv.fs,
              steps |-> rb.steps \o <<"decode", "encode">>, fault |-> "encode",
              logged |-> rb.logged]
        ELSE [raised |-> "none", err |-> [text |-> "", exc |-> ""],
              path |-> output_path, fs |-> sv.fs,
              steps |-> rb.steps \o <<"decode", "encode">>, fault |-> "none",
              logged |-> rb.logged \cup
                  {LogLine("info", "Successfully converted to transparent GIF", "")}]

\* removal, decode, save; every failure leaves as a ConversionError
convert_to_gif(image_data, filename, session, env, fs) ==
    LET rb == remove_background(image_data, session, env.remove)
        output_path == OutputFilename(filename)
        sv == img_save(fs, output_path, EnsureRGBA(rb.out), env.save)
    IN  IF rb.raised
        THEN [raised |-> "ConversionError", err |-> rb.err, path |-> <<>>, fs |-> fs,
              steps |-> rb.steps, fault |-> rb.fault, logged |-> rb.logged]
        ELSE IF env.decode = "raise"
        THEN [raised |-> "ConversionError",
              err |-> [text |-> "Failed to convert image: ", exc |-> ExcText.decode],
              path |-> <<>>, fs |-> fs,
              steps |-> rb.steps \o <<"decode">>, fault |-> "decode",
              logged |-> rb.logged \cup
                  {LogLine("error", "Conversion error for file: ", ExcText.decode)}]
        ELSE IF sv.raised
        THEN [raised |-> "ConversionError",
              err |-> [text |-> "Failed to convert image: ", exc |-> sv.exc],
              path |-> <<>>, fs |-> sv.fs,
              steps |-> rb.steps \o <<"decode", "encode">>, fault |-> "encode",
              logged |-> rb.logged \cup
                  {LogLine("error", "Conversion error for file: ", sv.exc)}]
        ELSE [raised |-> "none", err |-> [text |-> "", exc |-> ""],
              path |-> output_path, fs |-> sv.fs,
              steps |-> rb.steps \o <<"decode", "encode">>, fault |-> "none",
              logged |-> rb.logged \cup
                  {LogLine("info", "Successfully converted to transparent GIF", "")}]

\* ------------------------------------- convert_photo_to_gif, after the read
\* the length taken in KiB against a limit in bytes
MaxSizeCheck_kilobytes(n) == n \div 1024 > MAX_FILE_SIZE

\* len(file_content) > MAX_FILE_SIZE
MaxSizeCheck(n) == n > MAX_FILE_SIZE

\* a handler without the probe
ProbeFails_skipped(content) == FALSE

\* the probe of the uploaded bytes: Image.open raises
ProbeFails(content) == ~Decodable(content)

\* a 500 that carries the exception text
handle_exception_leaky(raised, err) ==
    IF raised = "ConversionError"
    THEN [resp |-> HTTPError(422, err.text, err.exc, 0),
          logged |-> {LogLine("error", "Conversion error: ", err.exc)}]
    ELSE [resp |-> HTTPError(500, "Internal server error occurred: ", err.exc, 0),
          logged |-> {LogLine("error", "Unexpected error: ", err.exc)}]

\* the handler's except clauses for what is no HTTPException: a
\* ConversionError is answered 422 with its text, anything else 500
handle_exception(raised, err) ==
    IF raised = "ConversionError"
    THEN [resp |-> HTTPError(422, err.text, err.exc, 0),
          logged |-> {LogLine("error", "Conversion error: ", err.exc)}]
    ELSE [resp |-> HTTPError(500, "Internal server error occurred", "", 0),
          logged |-> {LogLine("error", "Unexpected error: ", err.exc)}]

\* The handler from the return of `await file.read()` to its return or raise.
\* Status 200 is the FileResponse, whose body is read from the path when the
\* response is sent.
handler_after_read(file, session, env, fs) ==
    IF env.read = "raise"
    THEN LET x == handle_exception("Exception", [text |-> "", exc |-> ExcText.read])
         IN  [resp |-> x.resp, caught |-> "Exception", path |-> <<>>, fs |-> fs,
              steps |-> <<"read">>, fault |-> "read", logged |-> x.logged]
    ELSE IF MaxSizeCheck(file.content.len)
    THEN [resp |-> HTTPError(413, "File too large. Maximum size: MB", "",
                             MAX_FILE_SIZE \div (1024 * 1024)),
          caught |-> "HTTPException", path |-> <<>>, fs |-> fs,
          steps |-> <<"read", "actual_size">>, fault |-> "none", logged |-> {}]
    ELSE IF ProbeFails(file.content)
    THEN [resp |-> HTTPError(400, "Invalid image file", "", 0),
          caught |-> "HTTPException", path |-> <<>>, fs |-> fs,
          steps |-> <<"read", "actual_size", "probe">>, fault |-> "none",
          logged |-> {}]
    ELSE LET c == convert_to_gif(file.content, file.filename, session, env, fs)
             pre == <<"read", "actual_size", "probe">>
             x == handle_exception(c.raised, c.err)
         IN  IF c.raised # "none"
             THEN [resp |-> x.resp, caught |-> c.raised, path |-> <<>>, fs |-> c.fs,
                   steps |-> pre \o c.steps, fault |-> c.fault,
                   logged |-> c.logged \cup x.logged]
             ELSE [resp |-> [status |-> 200, detail |-> NoDetail,
                            media_type |-> "image/gif",
                            filename |-> OutputFilename(file.filename),
                            body |-> NoContent],
                   caught |-> "none", path |-> c.path, fs |-> c.fs,
                   steps |-> pre \o c.steps, fault |-> "none",
                   logged |-> c.logged]

\* a response that removes its file once sent
send_file_response_cleanup(fs, path) ==
    [body |-> IF IsFile(fs, path) THEN fs[path].content ELSE NoContent,
     fs |-> Unlink(fs, {path})]

\* FileResponse(path=output_path, ...): the body is what the path holds when
\* the response is sent; sending leaves the directory as it is
send_file_response(fs, path) ==
    [body |-> IF IsFile(fs, path) THEN fs[path].content ELSE NoContent,
     fs |-> fs]

\* ------------------------------------------------------------ startup_event
\* deleted: the entries the loop unlinked before it ended; failed: an
\* exception ended the sweep (caught and logged as a warning)
SweepTargets(fs) == {n \in DOMAIN fs : GlobGif(n) /\ IsFile(fs, n)}

startup_event(fs, deleted, failed) ==
    [fs |-> Unlink(fs, deleted),
     logged |-> IF failed
                THEN {LogLine("warning", "Could not clean up temp files: ", "OSError")}
                ELSE {LogLine("info", "Cleaned up temporary files", "")}]

SweepOutcomes(fs) ==
    { o \in [deleted : SUBSET SweepTargets(fs), failed : BOOLEAN] :
        ~o.failed => o.deleted = SweepTargets(fs) }

\* ------------------------------------------------------------------ inputs
PhotoJpg == <<"photo", ".", "jpg">>
PhotoJPG == <<"photo", ".", "JPG">>
DirPhotoJpeg == <<"dir", "/", "photo", ".", "jpeg">>
AlbumTarPng == <<"album", ".", "tar", ".", "png">>
DataTxt == <<"data", ".", "txt">>
NoExtension == <<"photo">>
DotPng == <<".", "png">>

Filenames ==
    { <<>>, PhotoJpg, PhotoJPG, DirPhotoJpeg, AlbumTarPng, DataTxt, NoExtension, DotPng }

Lengths == {0, MAX_FILE_SIZE, MAX_FILE_SIZE + 1}

Contents == { c \in [len : Lengths, data : Payloads] : c.len = 0 => c.data = 0 }

DeclaredSizes == {NoneSize} \cup {SizeOf(n) : n \in Lengths}

Uploads == [filename : Filenames, size : DeclaredSizes, content : Contents]

\* uploads of the concurrent specification: honest sizes, a few names
ConcurrentUploads ==
    { u \in Uploads :
        /\ u.filename \in {PhotoJpg, PhotoJPG, DataTxt}
        /\ u.size = NoneSize
        /\ u.content.len = MAX_FILE_SIZE }

\* the outcomes of the external calls of one request: every call succeeds, or
\* one of them is the first to fail
AllOk == [read |-> "ok", remove |-> "ok", decode |-> "ok", save |-> "ok"]

Envs ==
    { AllOk,
      [AllOk EXCEPT !.read = "raise"],
      [AllOk EXCEPT !.remove = "raise"],
      [AllOk EXCEPT !.decode = "raise"],
      [AllOk EXCEPT !.save = "raise_before_open"],
      [AllOk EXCEPT !.save = "raise_kept"],
      [AllOk EXCEPT !.save = "raise_removed"] }

\* what the scratch directory may hold when the process starts: a GIF an
\* earlier run left, a directory under the name of an output file, and a file
\* of another program
PhotoGifName == <<"photo", "_no_bg", ".", "gif">>
AlbumGifName == <<"album", ".", "tar", "_no_bg", ".", "gif">>
NotesTxt == <<"notes", ".", "txt">>

PreExisting ==
    [n \in {PhotoGifName, AlbumGifName, NotesTxt} |->
        IF n = AlbumGifName
        THEN [kind |-> "dir", content |-> NoContent]
        ELSE [kind |-> "file", content |-> [kind |-> "stale", of |-> 0]]]

Restrict(f, S) == [n \in S |-> f[n]]

\* the directory is new and empty, or holds any of the above
InitialEntries == SUBSET DOMAIN PreExisting

\* ------------------------------------------------------------------- state
VARIABLES
    server,         \* "starting": imported, before startup_event; "started"; "serving"
    rembg_session,  \* "loaded" or "None"
    scratch,        \* the entries of TEMP_DIR
    req,            \* the requests in flight
    boot            \* the last startup: the directory before the sweep, its log

vars == <<server, rembg_session, scratch, req, boot>>

Requests == {"r1", "r2"}

NoFile == [filename |-> <<>>, size |-> NoneSize, content |-> [len |-> 0, data |-> 0]]

IdleReq ==
    [pc |-> "idle", file |-> NoFile, steps |-> <<>>, resp |-> NoResponse,
     caught |-> "none", fault |-> "none", logged |-> {}, path |-> <<>>]

NoBoot == [before |-> <<>>, failed |-> FALSE, logged |-> {}]

Init ==
    /\ server = "starting"
    /\ rembg_session \in SessionValues
    /\ scratch \in {Restrict(PreExisting, S) : S \in InitialEntries}
    /\ req = [r \in Requests |-> IdleReq]
    /\ boot = NoBoot

\* startup_event: the sweep of the scratch directory
Startup ==
    /\ server = "starting"
    /\ \E o \in SweepOutcomes(scratch) :
          LET s == startup_event(scratch, o.deleted, o.failed)
          IN  /\ scratch' = s.fs
              /\ boot' = [before |-> scratch, failed |-> o.failed, logged |-> s.logged]
    /\ server' = "started"
    /\ UNCHANGED <<rembg_session, req>>

\* uvicorn starts accepting requests
Serve ==
    /\ server = "started"
    /\ server' = "serving"
    /\ boot' = NoBoot
    /\ UNCHANGED <<rembg_session, scratch, req>>

\* the server shuts down once the requests in flight are answered, and the
\* process is started again: the module is imported anew (the session is
\* loaded or not), the scratch directory is what the old process left
Restart ==
    /\ server = "serving"
    /\ \A q \in Requests : req[q].pc = "idle"
    /\ server' = "starting"
    /\ rembg_session' \in SessionValues
    /\ req' = [r \in Requests |-> IdleReq]
    /\ boot' = NoBoot
    /\ UNCHANGED scratch

\* convert_photo_to_gif up to `await file.read()`: validate_image_file
Receive(r, file) ==
    /\ server = "serving"
    /\ req[r].pc = "idle"
    /\ LET v == validate_image_file(file)
       IN  req' = [req EXCEPT ![r] =
                IF v.raised
                THEN [IdleReq EXCEPT !.pc = "done", !.file = file, !.steps = v.steps,
                                     !.resp = v.resp, !.caught = "HTTPException"]
                ELSE [IdleReq EXCEPT !.pc = "reading", !.file = file,
                                     !.steps = v.steps]]
    /\ UNCHANGED <<server, rembg_session, scratch, boot>>

\* convert_photo_to_gif from the read of the body to its return or raise
Convert(r, env) ==
    /\ server = "serving"
    /\ req[r].pc = "reading"
    /\ LET h == handler_after_read(req[r].file, rembg_session, env, scratch)
       IN  /\ req' = [req EXCEPT ![r] =
                  [pc |-> IF h.resp.status = 200 THEN "sending" ELSE "done",
                   file |-> req[r].file,
                   steps |-> req[r].steps \o h.steps,
                   resp |-> h.resp,
                   caught |-> h.caught,
                   fault |-> h.fault,
                   logged |-> h.logged,
                   path |-> h.path]]
           /\ scratch' = h.fs
    /\ UNCHANGED <<server, rembg_session, boot>>

\* the FileResponse is sent: the file at the path is read
Send(r) ==
    /\ server = "serving"
    /\ req[r].pc = "sending"
    /\ LET s == send_file_response(scratch, req[r].path)
       IN  /\ req' = [req EXCEPT ![r].pc = "done", ![r].resp.body = s.body]
           /\ scratch' = s.fs
    /\ UNCHANGED <<server, rembg_session, boot>>

\* the client has its response; the request is over
Complete(r) ==
    /\ server = "serving"
    /\ req[r].pc = "done"
    /\ req' = [req EXCEPT ![r] = IdleReq]
    /\ UNCHANGED <<server, rembg_session, scratch, boot>>

Quiet == \A q \in Requests : req[q].pc = "idle"

\* requests overlap
Next ==
    \/ Startup
    \/ Serve
    \/ Restart
    \/ \E r \in Requests, file \in ConcurrentUploads : Receive(r, file)
    \/ \E r \in Requests, env \in Envs : Convert(r, env)
    \/ \E r \in Requests : Send(r)
    \/ \E r \in Requests : Complete(r)

Spec == Init /\ [][Next]_vars

\* one request at a time, every upload
NextSeq ==
    \/ Startup
    \/ Serve
    \/ Restart
    \/ \E file \in Uploads : Quiet /\ Receive("r1", file)
    \/ \E r \in Requests, env \in Envs : Convert(r, env)
    \/ \E r \in Requests : Send(r)
    \/ \E r \in Requests : Complete(r)

SpecSeq == Init /\ [][NextSeq]_vars

\* ------------------------------------------------------------ properties
Done(r) == req[r].pc = "done"
Ran(r, step) == \E i \in 1..Len(req[r].steps) : req[r].steps[i] = step

SupportedExtension(f) == lower(PathSuffix(f.filename)) \in SUPPORTED_FORMATS
DeclaredOver(f) == f.size.known /\ f.size.value > MAX_FILE_SIZE
ActualOver(f) == f.content.len > MAX_FILE_SIZE

\* an upload every validation check accepts
WellFormed(f) ==
    /\ SupportedExtension(f)
    /\ ~DeclaredOver(f)
    /\ ~ActualOver(f)
    /\ Decodable(f.content)

\* the uploaded filename, directories aside, with its extension stripped
StrippedName(filename) ==
    LET n == PathName(filename) IN SubSeq(n, 1, Len(n) - 2)

DecodingSteps == {"probe", "remove_background", "rembg.remove", "decode", "encode"}

\* C1: a well-formed upload, with the session loaded and no call failing, is
\* answered 200, image/gif, filename {basename}_no_bg.gif, and the body is the
\* GIF made from that upload.
C1_WellFormedGetsOwnGif ==
    \A r \in Requests :
        (/\ Done(r)
         /\ WellFormed(req[r].file)
         /\ rembg_session = "loaded"
         /\ req[r].fault = "none")
        => /\ req[r].resp.status = 200
           /\ req[r].resp.media_type = "image/gif"
           /\ req[r].resp.filename =
                 StrippedName(req[r].file.filename) \o <<"_no_bg", ".", "gif">>
           /\ req[r].resp.body = [kind |-> "gif", of |-> req[r].file.content.data]

\* C2: an upload whose filename has no supported extension is answered 4xx
\* and background removal is never invoked for it, whatever its size or
\* content.
C2_UnsupportedRejected ==
    \A r \in Requests :
        (req[r].pc # "idle" /\ ~SupportedExtension(req[r].file))
        => /\ Done(r)
           /\ req[r].resp.status \in 400..499
           /\ ~Ran(r, "remove_background")
           /\ ~Ran(r, "rembg.remove")

C2_Witness ==
    \E r \in Requests :
        /\ Done(r)
        /\ req[r].file.filename = DataTxt
        /\ Decodable(req[r].file.content)
        /\ req[r].resp.status = 400
        /\ rembg_session = "loaded"

\* C3 as stated: every upload over 10 MiB, declared or actual, is answered
\* 413 before any decoding.
C3_OversizeAlways413 ==
    \A r \in Requests :
        (Done(r) /\ (DeclaredOver(req[r].file) \/ ActualOver(req[r].file)))
        => /\ req[r].resp.status = 413
           /\ \A d \in DecodingSteps : ~Ran(r, d)

\* C3: an upload with a supported extension whose declared size exceeds
\* 10 MiB, or whose actual size does once its body has been read, is answered
\* 413 with the limit stated, and no decoding step has run for it.
C3_OversizeSupported413 ==
    \A r \in Requests :
        (/\ Done(r)
         /\ SupportedExtension(req[r].file)
         /\ \/ DeclaredOver(req[r].file)
            \/ ActualOver(req[r].file) /\ req[r].fault # "read")
        => /\ req[r].resp.status = 413
           /\ req[r].resp.detail.num = 10
           /\ \A d \in DecodingSteps : ~Ran(r, d)

C3_Witness ==
    \E r \in Requests :
        /\ Done(r)
        /\ ~DeclaredOver(req[r].file)
        /\ ActualOver(req[r].file)
        /\ Ran(r, "actual_size")
        /\ req[r].resp.status = 413

UnavailableText == "Background removal service not available"

\* C4 as stated: with the session not loaded every request is answered 422,
\* service unavailable, whatever the upload.
C4_NoSessionAlways422 ==
    rembg_session = "None" =>
        \A r \in Requests :
            Done(r) => /\ req[r].resp.status = 422
                       /\ req[r].resp.detail.exc = UnavailableText

\* C4: with the session not loaded, every request whose upload passes the
\* validation checks and whose body is read is answered 422 with the message
\* that the removal service is not available, and rembg is not called.
C4_NoSessionValid422 ==
    rembg_session = "None" =>
        \A r \in Requests :
            (Done(r) /\ WellFormed(req[r].file) /\ req[r].fault # "read")
            => /\ req[r].resp.status = 422
               /\ req[r].resp.detail.text = "Failed to remove background: "
               /\ req[r].resp.detail.exc = UnavailableText
               /\ ~Ran(r, "rembg.remove")

C4_Witness ==
    /\ rembg_session = "None"
    /\ \E r \in Requests :
          /\ Done(r)
          /\ WellFormed(req[r].file)
          /\ Ran(r, "remove_background")
          /\ req[r].resp.status = 422

CheckOrder ==
    <<"filename", "extension", "declared_size", "read", "actual_size", "probe">>

\* the place in CheckOrder of the first check the upload fails, 0 when it
\* fails none (the read, place 4, is no check)
FirstFailing(f) ==
    IF f.filename = <<>> THEN 1
    ELSE IF ~SupportedExtension(f) THEN 2
    ELSE IF DeclaredOver(f) THEN 3
    ELSE IF ActualOver(f) THEN 5
    ELSE IF ~Decodable(f.content) THEN 6
    ELSE 0

RejectionOf(k) ==
    CASE k = 1 -> [status |-> 400, text |-> "No filename provided"]
      [] k = 2 -> [status |-> 400, text |-> "Unsupported file format. Supported formats: "]
      [] k = 3 -> [status |-> 413, text |-> "File too large. Maximum size: MB"]
      [] k = 5 -> [status |-> 413, text |-> "File too large. Maximum size: MB"]
      [] k = 6 -> [status |-> 400, text |-> "Invalid image file"]

IsPrefix(s, t) == Len(s) <= Len(t) /\ SubSeq(t, 1, Len(s)) = s

\* C5: the checks run in the order filename, extension, declared size,
\* actual size (after the read), decode probe; the first one that fails
\* decides the response and nothing runs after it.
C5_ValidationOrder ==
    \A r \in Requests :
        LET k == FirstFailing(req[r].file)
            st == req[r].steps
        IN  req[r].pc # "idle" =>
              /\ IsPrefix(st, CheckOrder) \/ IsPrefix(CheckOrder, st)
              /\ (Done(r) /\ k # 0 /\ req[r].fault # "read") =>
                    /\ st = SubSeq(CheckOrder, 1, k)
                    /\ req[r].resp.status = RejectionOf(k).status
                    /\ req[r].resp.detail.text = RejectionOf(k).text
              /\ (Done(r) /\ k = 0 /\ req[r].fault # "read") => IsPrefix(CheckOrder, st)

\* an upload that is both too large and no image: the size check answers
C5_Witness ==
    \E r \in Requests :
        /\ Done(r)
        /\ req[r].file.filename = PhotoJPG
        /\ ~DeclaredOver(req[r].file)
        /\ ActualOver(req[r].file)
        /\ ~Decodable(req[r].file.content)
        /\ req[r].steps = SubSeq(CheckOrder, 1, 5)
        /\ req[r].resp.status = 413

ProcessingFaults == {"unavailable", "remove", "decode", "encode"}

\* the exception texts a failure of each kind carries
FaultTexts(fault) ==
    CASE fault = "unavailable" -> {UnavailableText}
      [] fault = "remove" -> {ExcText.remove}
      [] fault = "decode" -> {ExcText.decode}
      [] fault = "encode" -> {ExcText.encode, ExcText.isdir}
      [] fault = "read" -> {ExcText.read}
      [] OTHER -> {}

\* C6: a failure of the removal step or of the decode/encode step after it
\* reaches the handler as a ConversionError and is answered 422 with a detail
\* that describes the failure.
C6_ProcessingFailure422 ==
    \A r \in Requests :
        (Done(r) /\ req[r].fault \in ProcessingFaults)
        => /\ req[r].caught = "ConversionError"
           /\ req[r].resp.status = 422
           /\ req[r].resp.detail.text \in
                 {"Failed to remove background: ", "Failed to convert image: "}
           /\ req[r].resp.detail.exc \in FaultTexts(req[r].fault)

C6_Witness ==
    \E r \in Requests :
        /\ Done(r)
        /\ req[r].fault = "encode"
        /\ req[r].resp.status = 422
        /\ req[r].resp.detail.exc = ExcText.encode

Logged(r, exc) == \E l \in req[r].logged : l.level = "error" /\ l.exc = exc

\* C7 as stated: a failure of the decode or encode of the background-removed
\* image is answered 500 with the generic message, its text logged only.
C7_DecodeEncode500 ==
    \A r \in Requests :
        (Done(r) /\ req[r].fault \in {"decode", "encode"})
        => /\ req[r].resp.status = 500
           /\ req[r].resp.detail.text = "Internal server error occurred"
           /\ req[r].resp.detail.exc = ""

\* C7: a failure of the decode or encode of the background-removed image is
\* answered 422 "Failed to convert image: " followed by the exception text,
\* which is logged as well; 500 with the generic message and no exception
\* text, the text logged only, answers just the failures outside validation
\* and conversion (the read of the body).
C7_DecodeEncode422 ==
    \A r \in Requests :
        Done(r) =>
            /\ req[r].fault \in {"decode", "encode"} =>
                  /\ req[r].resp.status = 422
                  /\ req[r].resp.detail.text = "Failed to convert image: "
                  /\ req[r].resp.detail.exc \in FaultTexts(req[r].fault)
                  /\ Logged(r, req[r].resp.detail.exc)
            /\ req[r].resp.status = 500 =>
                  /\ req[r].fault = "read"
                  /\ req[r].resp.detail =
                        [text |-> "Internal server error occurred", exc |-> "", num |-> 0]
                  /\ Logged(r, ExcText.read)
            /\ req[r].fault = "read" => req[r].resp.status = 500

C7_Witness ==
    \E r \in Requests :
        /\ Done(r)
        /\ req[r].fault = "decode"
        /\ req[r].resp.status = 422
        /\ req[r].resp.detail.exc = ExcText.decode

\* C8: under every interleaving of two requests each successful response
\* carries the GIF made from that request's own upload.
C8_ResponseCarriesOwnGif ==
    \A r \in Requests :
        (Done(r) /\ req[r].resp.status = 200)
        => req[r].resp.body = [kind |-> "gif", of |-> req[r].file.content.data]

\* C9: a successful request leaves a file {basename}_no_bg.gif in the scratch
\* directory, and no step but the startup sweep removes an entry of it.
C9_ScratchOnlyGrows ==
    [][ server # "starting" =>
          /\ \A n \in DOMAIN scratch :
                n \in DOMAIN scratch' /\ scratch'[n].kind = scratch[n].kind
          /\ \A r \in Requests :
                req'[r].resp.status = 200 =>
                    IsFile(scratch', StrippedName(req'[r].file.filename)
                                        \o <<"_no_bg", ".", "gif">>) ]_vars

\* a later request has been answered and the file of an earlier one is there
C9_Witness ==
    \E r \in Requests :
        /\ Done(r)
        /\ req[r].file.filename = AlbumTarPng
        /\ req[r].resp.status = 200
        /\ IsFile(scratch, PhotoGifName)
        /\ scratch[PhotoGifName].content.kind = "gif"
        /\ IsFile(scratch, AlbumGifName)

EndsInGif(name) == Len(name) >= 2 /\ SubSeq(name, Len(name) - 1, Len(name)) = <<".", "gif">>

\* C10: the startup sweep deletes the regular files named *.gif and leaves
\* every other entry as it was; a failure is logged, leaves the files not yet
\* reached, and the service starts all the same.
C10_StartupSweep ==
    server = "started" =>
        LET before == boot.before
            swept == {n \in DOMAIN before : EndsInGif(n) /\ before[n].kind = "file"}
        IN  /\ DOMAIN scratch \subseteq DOMAIN before
            /\ \A n \in DOMAIN before \ swept :
                  n \in DOMAIN scratch /\ scratch[n] = before[n]
            /\ \A n \in swept : n \in DOMAIN scratch => scratch[n] = before[n]
            /\ ~boot.failed => \A n \in swept : n \notin DOMAIN scratch
            /\ boot.failed => \E l \in boot.logged : l.level = "warning"
            /\ ENABLED Serve

C10_Witness ==
    /\ server = "started"
    /\ ~boot.failed
    /\ IsFile(boot.before, PhotoGifName)
    /\ PhotoGifName \notin DOMAIN scratch
    /\ IsFile(scratch, NotesTxt)
    /\ IsDir(scratch, AlbumGifName)

\* C11: a request whose upload fails a validation check leaves the scratch
\* directory as it was and runs no step of the background removal: in the
\* step that answers it nothing is written, and its steps hold no removal.
C11_RejectedLeavesNoTrace ==
    [][ \A r \in Requests :
          (/\ req[r].pc \in {"idle", "reading"}
           /\ req'[r].pc = "done"
           /\ FirstFailing(req'[r].file) # 0)
          => /\ scratch' = scratch
             /\ \A i \in 1..Len(req'[r].steps) :
                   req'[r].steps[i] \notin {"remove_background", "rembg.remove",
                                            "decode", "encode"} ]_vars

\* an upload that is no image has been rejected by the probe, and the GIF of
\* an earlier request is still what it was
C11_Witness ==
    \E r \in Requests :
        /\ Done(r)
        /\ FirstFailing(req[r].file) = 6
        /\ req[r].file.filename = PhotoJpg
        /\ req[r].resp.status = 400
        /\ req[r].resp.detail.text = "Invalid image file"
        /\ IsFile(scratch, PhotoGifName)
        /\ scratch[PhotoGifName].content = [kind |-> "gif", of |-> 1]

====
